---- MODULE Spec2Model ----
(***************************************************************************)
(* Model of the subhosting IDE starter: the URL joiner and the API client  *)
(* of subhosting.ts, and the browser controller of static/app.js.          *)
(* Strings that the code takes apart are sequences of one-character        *)
(* strings; strings it only passes along are TLA+ strings.                 *)
(***************************************************************************)
EXTENDS Integers, Sequences, FiniteSets, TLC

VARIABLES
    args,       \* urlJoin: the segments the caller holds (its array, or its argument list)
    asArray,    \* urlJoin: TRUE when the caller passes args as one array (args[0] is an object)
    calls,      \* urlJoin: the outcomes of the calls made so far on args
    given,      \* urlJoin: the segments as the caller first held them (history)
    env,        \* Client: the process environment (DEPLOY_ACCESS_TOKEN, DEPLOY_ORG_ID)
    ctorArgs,   \* Client: the arguments the constructor was called with (history)
    client,     \* Client: the constructed client, its construction error, or nothing yet
    requests,   \* Client: the HTTP requests issued so far, in order
    selected,   \* browser: the value of the project-list selector
    panel,      \* browser: the children of the deployments panel (its innerHTML)
    polls,      \* browser: the pollData calls awaiting their response, oldest first
    deploys,    \* browser: the saveAndDeploy calls awaiting their response, oldest first
    server,     \* remote API: the number of deployments of each project
    clicks,     \* browser: the number of deploy clicks so far
    pollOutcome,    \* browser: how the last pollData call that returned ended
    unshown,    \* observer: a deployment has been created and is being watched,
                \* and no poll issued after its creation has been rendered yet
    outdated    \* observer: how many of the oldest polls in flight were issued
                \* before the watched deployment was created (0 when none is)

urlVars == <<args, asArray, calls, given>>
clientVars == <<env, ctorArgs, client, requests>>
uiVars == <<selected, panel, polls, deploys, server, clicks, pollOutcome,
            outdated, unshown>>

-----------------------------------------------------------------------------
(* Bounds *)

MaxSegs == 3
MaxCalls == 2

-----------------------------------------------------------------------------
(* Strings and JavaScript values *)

\* A JavaScript value given as a segment: a string, or a number (isString
\* FALSE) with s the text that string concatenation converts it to.
Str(s) == [isString |-> TRUE, s |-> s]
Num(s) == [isString |-> FALSE, s |-> s]

\* The number of consecutive characters of s, from position i on, that are in C.
RECURSIVE RunIn(_, _, _)
RunIn(s, i, C) ==
    IF i <= Len(s) /\ s[i] \in C THEN 1 + RunIn(s, i + 1, C) ELSE 0

\* The number of consecutive characters of s, from position i on, that are not in C.
RECURSIVE RunNotIn(_, _, _)
RunNotIn(s, i, C) ==
    IF i <= Len(s) /\ s[i] \notin C THEN 1 + RunNotIn(s, i + 1, C) ELSE 0

StartsWith(s, p) == Len(s) >= Len(p) /\ SubSeq(s, 1, Len(p)) = p

\* Array.prototype.join
RECURSIVE Join(_, _)
Join(parts, sep) ==
    IF Len(parts) = 0 THEN <<>>
    ELSE IF Len(parts) = 1 THEN parts[1]
    ELSE parts[1] \o sep \o Join(Tail(parts), sep)

\* String.prototype.split on a one-character separator, from position i with
\* the part read so far in cur.
RECURSIVE SplitFrom(_, _, _, _)
SplitFrom(s, c, i, cur) ==
    IF i > Len(s) THEN <<cur>>
    ELSE IF s[i] = c THEN <<cur>> \o SplitFrom(s, c, i + 1, <<>>)
    ELSE SplitFrom(s, c, i + 1, Append(cur, s[i]))

Split(s, c) == SplitFrom(s, c, 1, <<>>)

-----------------------------------------------------------------------------
(* normalize and urlJoin *)

\* /^([^/:]+):/ : the length of the scheme the string starts with, 0 if none.
SchemeLen(s) ==
    LET n == RunNotIn(s, 1, {"/", ":"})
    IN IF n >= 1 /\ n < Len(s) /\ s[n + 1] = ":" THEN n ELSE 0

\* strArray[0].match(/^[^/:]+:\/*$/)
IsBareScheme(s) ==
    LET n == SchemeLen(s)
    IN n >= 1 /\ n + 1 + RunIn(s, n + 2, {"/"}) = Len(s)

\* s.replace(/^([^/:]+):\/*/, "$1" + sep)
ReplaceProtocol(s, sep) ==
    LET n == SchemeLen(s)
        k == RunIn(s, n + 2, {"/"})
    IN IF n = 0 THEN s
       ELSE SubSeq(s, 1, n) \o sep \o SubSeq(s, n + 2 + k, Len(s))

FileProtocol == <<"f", "i", "l", "e", ":", "/", "/", "/">>

\* Lines 26-29: a bare scheme in front is merged with the segment after it
\* (string concatenation, whatever that segment is).
MergeBareScheme(strArray) ==
    IF IsBareScheme(strArray[1].s) /\ Len(strArray) > 1
    THEN <<Str(strArray[1].s \o strArray[2].s)>> \o Tail(Tail(strArray))
    ELSE strArray

\* Lines 31-35: three slashes after file:///, two after every other scheme.
FixProtocol(strArray) ==
    [strArray EXCEPT ![1] =
        Str(IF StartsWith(strArray[1].s, FileProtocol)
            THEN ReplaceProtocol(strArray[1].s, <<":", "/", "/", "/">>)
            ELSE ReplaceProtocol(strArray[1].s, <<":", "/", "/">>))]

\* component.replace(/^[\/]+/, "")
StripLeadingSlashes(s) == SubSeq(s, RunIn(s, 1, {"/"}) + 1, Len(s))

\* The number of slashes s ends with.
RECURSIVE TrailingSlashes(_)
TrailingSlashes(s) ==
    IF Len(s) > 0 /\ s[Len(s)] = "/"
    THEN 1 + TrailingSlashes(SubSeq(s, 1, Len(s) - 1))
    ELSE 0

\* component.replace(/[\/]+$/, to)
ReplaceTrailingSlashes(s, to) ==
    LET k == TrailingSlashes(s)
    IN IF k = 0 THEN s ELSE SubSeq(s, 1, Len(s) - k) \o to

\* Lines 44-57, one turn of the loop: the component pushed for strArray[i]
\* (a one-element sequence), or nothing for an empty segment.
Component(strArray, i) ==
    LET c0 == strArray[i].s
        c1 == IF i > 1 THEN StripLeadingSlashes(c0) ELSE c0
        c2 == IF i < Len(strArray)
              THEN ReplaceTrailingSlashes(c1, <<>>)
              ELSE ReplaceTrailingSlashes(c1, <<"/">>)
    IN IF c0 = <<>> THEN <<>> ELSE <<c2>>

\* Lines 37-58: resultArray after the loop has run from i to the end.
RECURSIVE Components(_, _)
Components(strArray, i) ==
    IF i > Len(strArray) THEN <<>>
    ELSE Component(strArray, i) \o Components(strArray, i + 1)

\* str.replace(/\/(\?|&|#[^!])/g, "$1"), scanning from position i.
RECURSIVE RemoveSlashBeforeParams(_, _)
RemoveSlashBeforeParams(s, i) ==
    IF i > Len(s) THEN <<>>
    ELSE IF s[i] = "/" /\ i + 1 <= Len(s) /\ s[i + 1] \in {"?", "&"}
         THEN <<s[i + 1]>> \o RemoveSlashBeforeParams(s, i + 2)
    ELSE IF s[i] = "/" /\ i + 2 <= Len(s) /\ s[i + 1] = "#" /\ s[i + 2] # "!"
         THEN <<s[i + 1], s[i + 2]>> \o RemoveSlashBeforeParams(s, i + 3)
    ELSE <<s[i]>> \o RemoveSlashBeforeParams(s, i + 1)

\* A mutant of MergeQuery that joins the parts with "?" again.
MergeQueryKeeping(str) ==
    LET parts == Split(str, "?")
    IN parts[1] \o (IF Len(parts) > 1 THEN <<"?">> ELSE <<>>)
                \o Join(Tail(parts), <<"?">>)

\* Lines 67-68: split on "?", keep the first "?" and join the rest with "&".
MergeQuery(str) ==
    LET parts == Split(str, "?")
    IN parts[1] \o (IF Len(parts) > 1 THEN <<"?">> ELSE <<>>)
                \o Join(Tail(parts), <<"&">>)

\* Whether the loop of lines 37-58 meets a segment that is not a string.
HasNonString(strArray) == \E i \in 1..Len(strArray) : ~strArray[i].isString

\* normalize(strArray): whether it throws the TypeError, the string it
\* returns otherwise, and strArray as the call leaves it (the array is
\* modified in place by lines 27-28 and 32/34).
normalize(strArray) ==
    IF Len(strArray) = 0
    THEN [thrown |-> FALSE, str |-> <<>>, strArray |-> strArray]
    ELSE IF ~strArray[1].isString
    THEN [thrown |-> TRUE, str |-> <<>>, strArray |-> strArray]
    ELSE LET fixed == FixProtocol(MergeBareScheme(strArray))
         IN IF HasNonString(fixed)
            THEN [thrown |-> TRUE, str |-> <<>>, strArray |-> fixed]
            ELSE [thrown |-> FALSE,
                  str |-> MergeQuery(RemoveSlashBeforeParams(
                              Join(Components(fixed, 1), <<"/">>), 1)),
                  strArray |-> fixed]

\* urlJoin(...args): with one array argument the array itself is handed to
\* normalize (line 8); otherwise normalize works on a copy of the argument
\* list (line 10) and the caller's values stay as they are.
urlJoin(segs, array) ==
    LET r == normalize(segs)
    IN [thrown |-> r.thrown, str |-> r.str,
        after |-> IF array THEN r.strArray ELSE segs]

-----------------------------------------------------------------------------
(* The API client *)

\* The JavaScript value undefined, for an argument left out or a variable unset.
Undefined == "<undefined>"

\* a ?? b
Nullish(a, b) == IF a = Undefined THEN b ELSE a

\* !v for a value that is a string or undefined
Falsy(v) == v = Undefined \/ v = ""

DefaultEndpoint ==
    <<"h", "t", "t", "p", "s", ":", "/", "/", "a", "p", "i", ".", "d", "e",
      "n", "o", ".", "c", "o", "m", "/", "v", "1">>

\* new Client(accessToken, orgId, options): the client, or the error thrown.
Constructor(accessToken, orgId, options) ==
    LET at == Nullish(accessToken, env.DEPLOY_ACCESS_TOKEN)
        org == Nullish(orgId, env.DEPLOY_ORG_ID)
    IN IF Falsy(at) THEN [state |-> "error", error |-> "access token required",
                          accessToken |-> Undefined, orgId |-> Undefined,
                          endpoint |-> <<>>]
       ELSE IF Falsy(org) THEN [state |-> "error", error |-> "org ID required",
                                accessToken |-> Undefined, orgId |-> Undefined,
                                endpoint |-> <<>>]
       ELSE [state |-> "ok", error |-> "",
             accessToken |-> at, orgId |-> org,
             endpoint |-> IF options.hasEndpoint
                          THEN options.endpoint ELSE DefaultEndpoint]

\* The URL that Client.fetch(url) requests.
FetchFinalUrl(url) == urlJoin(<<Str(client.endpoint), Str(url)>>, FALSE).str

\* The headers of Client.fetch: the defaults, overridden by the caller's.
FetchFinalHeaders(headers) ==
    [Authorization |-> IF headers.Authorization = Undefined
                       THEN <<"Bearer", client.accessToken>>
                       ELSE headers.Authorization,
     ContentType   |-> IF headers.ContentType = Undefined
                       THEN "application/json" ELSE headers.ContentType]

\* The request that Client.fetch(url, options) issues.
FetchRequest(url, options) ==
    [url |-> FetchFinalUrl(url), method |-> options.method,
     headers |-> FetchFinalHeaders(options.headers)]

\* The request that Client.fetchUrl(url, options) issues: it calls this.fetch.
FetchUrlRequest(url, options) == FetchRequest(url, options)

MaxRequests == 2

U_endpoint == <<"h", "t", "t", "p", ":", "/", "/", "e", "/">>
U_path     == <<"/", "p">>
U_pathQ    == <<"/", "p", "?", "q", "=", "1">>
U_next     == <<"h", "t", "t", "p", ":", "/", "/", "e", "/", "p", "?", "c", "=", "2">>
U_nextApi  == DefaultEndpoint \o <<"/", "p", "?", "c", "=", "2">>

TokenValues == {Undefined, "", "tok"}
EnvValues == {Undefined, "", "envtok"}
OrgValues == {Undefined, "", "org"}
EnvOrgValues == {Undefined, "", "envorg"}
\* The options argument: left out, or { endpoint: ... }.
ClientOptions ==
    { [hasEndpoint |-> FALSE, endpoint |-> <<>>],
      [hasEndpoint |-> TRUE, endpoint |-> U_endpoint] }
Paths == {U_path, U_pathQ}
FullUrls == {U_next, U_nextApi}
NoHeaders == [Authorization |-> Undefined, ContentType |-> Undefined]
RequestOptions ==
    { [method |-> "GET", headers |-> NoHeaders],
      [method |-> "POST",
       headers |-> [Authorization |-> <<"Bearer", "other">>, ContentType |-> Undefined]] }

NoClient ==
    [state |-> "none", error |-> "", accessToken |-> Undefined,
     orgId |-> Undefined, endpoint |-> <<>>]
NoArgs == [accessToken |-> Undefined, orgId |-> Undefined]

\* urlJoin at rest, for the specifications that do not call it.
UrlIdle ==
    /\ args = <<>>
    /\ given = <<>>
    /\ asArray = FALSE
    /\ calls = <<>>

\* The client part at rest, for the specifications that do not use it.
ClientIdle ==
    /\ env = [DEPLOY_ACCESS_TOKEN |-> Undefined, DEPLOY_ORG_ID |-> Undefined]
    /\ ctorArgs = NoArgs
    /\ client = NoClient
    /\ requests = <<>>

-----------------------------------------------------------------------------
(* The browser controller *)

MaxInFlight == 2
MaxClicks == 1

Projects == {"A", "B"}

\* The deployments the remote API holds when the page loads.
InitialServer == [p \in Projects |-> IF p = "A" THEN 1 ELSE 0]

\* The k-th deployment of project p as the API reports it: the first of a
\* project has its domain, a later one is still waiting for it.
Deployment(p, k) ==
    [hasDomains |-> TRUE,
     domains |-> IF k = 1 THEN <<[project |-> p, n |-> k]>> ELSE <<>>,
     status |-> IF k = 1 THEN "success" ELSE "pending",
     updatedAt |-> k]

\* An entry without a domains property.
BadEntry == [hasDomains |-> FALSE, domains |-> <<>>, status |-> "failed", updatedAt |-> 0]

\* The n deployments of project p, latest first (order: "desc").
DeploymentList(p, n) == [i \in 1..n |-> Deployment(p, n + 1 - i)]

\* The lists the API can return: a project has its initial deployments and
\* one more for each deploy click at most.
DeploymentLists ==
    [p \in Projects |-> [n \in 0..(InitialServer[p] + MaxClicks) |-> DeploymentList(p, n)]]

\* The elements the panel can hold.
NoDomain == [project |-> "", n |-> 0]
Placeholder ==
    [tag |-> "p", text |-> "No deployments for this project.",
     href |-> NoDomain, label |-> NoDomain, status |-> "", updatedAt |-> 0]
Creating ==
    [tag |-> "p", text |-> "Creating deployment...",
     href |-> NoDomain, label |-> NoDomain, status |-> "", updatedAt |-> 0]

\* Lines 11-19: the line of one deployment. Without a first domain the link
\* goes to "https://undefined" and reads "URL pending...".
DeploymentLine(d) ==
    [tag |-> "div.deployment-line",
     text |-> IF Len(d.domains) = 0 THEN "URL pending..." ELSE "",
     href |-> IF Len(d.domains) = 0 THEN NoDomain ELSE d.domains[1],
     label |-> IF Len(d.domains) = 0 THEN NoDomain ELSE d.domains[1],
     status |-> d.status, updatedAt |-> d.updatedAt]

\* The html string built by the forEach of lines 10-20: the lines of the
\* entries before the first one without domains, where reading domains[0]
\* throws, and whether the loop threw there.
RenderLines(items) ==
    LET bad == {i \in 1..Len(items) : ~items[i].hasDomains}
        done == IF bad = {} THEN Len(items)
                ELSE (CHOOSE i \in bad : \A j \in bad : i <= j) - 1
    IN [html |-> [i \in 1..done |-> DeploymentLine(items[i])], threw |-> bad # {}]

\* A parsed response body: null, an object that is no list, or a list.
JsonNull == [type |-> "null", items |-> <<>>]
JsonObject == [type |-> "object", items |-> <<>>]
JsonList(items) == [type |-> "array", items |-> items]

\* A mutant of setDeployments that writes each line into the panel as it is
\* built instead of assigning the finished html once.
SetDeploymentsLineByLine(innerHTML, deployments) ==
    IF deployments.type = "null"
       \/ (deployments.type = "array" /\ Len(deployments.items) < 1)
    THEN [innerHTML |-> <<Placeholder>>, threw |-> FALSE]
    ELSE IF deployments.type # "array"
    THEN [innerHTML |-> innerHTML, threw |-> TRUE]
    ELSE LET r == RenderLines(deployments.items)
         IN [innerHTML |-> r.html, threw |-> r.threw]

\* A mutant of setDeployments that adds the finished html to what the panel
\* holds (innerHTML += html) instead of replacing it.
SetDeploymentsAppending(innerHTML, deployments) ==
    IF deployments.type = "null"
       \/ (deployments.type = "array" /\ Len(deployments.items) < 1)
    THEN [innerHTML |-> <<Placeholder>>, threw |-> FALSE]
    ELSE IF deployments.type # "array"
    THEN [innerHTML |-> innerHTML, threw |-> TRUE]
    ELSE LET r == RenderLines(deployments.items)
         IN IF r.threw THEN [innerHTML |-> innerHTML, threw |-> TRUE]
            ELSE [innerHTML |-> innerHTML \o r.html, threw |-> FALSE]

\* setDeployments(deployments) on a panel holding innerHTML: the panel
\* afterwards and whether the call threw. The html is assigned on line 21
\* only, after the loop; an object that is no list has no forEach.
setDeployments(innerHTML, deployments) ==
    IF deployments.type = "null"
       \/ (deployments.type = "array" /\ Len(deployments.items) < 1)
    THEN [innerHTML |-> <<Placeholder>>, threw |-> FALSE]
    ELSE IF deployments.type # "array"
    THEN [innerHTML |-> innerHTML, threw |-> TRUE]
    ELSE LET r == RenderLines(deployments.items)
         IN IF r.threw THEN [innerHTML |-> innerHTML, threw |-> TRUE]
            ELSE [innerHTML |-> r.html, threw |-> FALSE]

\* How the response to a poll can turn out.
ResponseKinds == {"rejected", "badjson", "null", "object", "list", "badlist"}

\* The body of the response of kind k to a poll for projectId, which the
\* server route GET /deployments answers from the deployments the project
\* has then.
ResponseBody(projectId, k) ==
    CASE k = "null"    -> JsonNull
      [] k = "object"  -> JsonObject
      [] k = "list"    -> JsonList(DeploymentLists[projectId][server[projectId]])
      [] k = "badlist" -> JsonList(DeploymentLists[projectId][server[projectId]]
                                   \o <<BadEntry>>)

\* Lines 33-40 of pollData once the response of kind k is there: the panel
\* afterwards and how the call ends ("rendered", or "logged" when the catch
\* block ran console.error).
PollResult(innerHTML, projectId, k) ==
    IF k \in {"rejected", "badjson"}
    THEN [innerHTML |-> innerHTML, outcome |-> "logged"]
    ELSE LET r == setDeployments(innerHTML, ResponseBody(projectId, k))
         IN [innerHTML |-> r.innerHTML,
             outcome |-> IF r.threw THEN "logged" ELSE "rendered"]

\* s without its i-th element.
RemoveAt(s, i) == SubSeq(s, 1, i - 1) \o SubSeq(s, i + 1, Len(s))

\* pollData() up to its first await: the project id is read and the request
\* to /deployments sent.
IssuePoll(projectId) ==
    /\ Len(polls) < MaxInFlight
    /\ polls' = Append(polls, projectId)

\* The page after window.onload has run: the panel is empty, the handlers
\* are attached, the timer runs and the first poll is on its way.
Init ==
    /\ selected \in Projects
    /\ panel = <<>>
    /\ polls = <<selected>>
    /\ deploys = <<>>
    /\ server = InitialServer
    /\ clicks = 0
    /\ pollOutcome = "none"
    /\ outdated = 0
    /\ unshown = FALSE
    /\ UrlIdle
    /\ ClientIdle

\* The interval timer fires: pollData().
TimerTick ==
    /\ IssuePoll(selected)
    /\ UNCHANGED <<selected, panel, deploys, server, clicks, pollOutcome,
                   outdated, unshown>>
    /\ UNCHANGED <<urlVars, clientVars>>

\* A mutant of ChangeProject that aborts the polls in flight before it
\* issues the one for the new project.
ChangeProjectAborting(p) ==
    /\ p # selected
    /\ selected' = p
    /\ Len(polls) < MaxInFlight
    /\ polls' = <<p>>
    /\ UNCHANGED <<panel, deploys, server, clicks, pollOutcome,
                   outdated, unshown>>
    /\ UNCHANGED <<urlVars, clientVars>>

\* The user selects project p: the change handler is pollData.
ChangeProject(p) ==
    /\ p # selected
    /\ selected' = p
    /\ IssuePoll(p)
    /\ UNCHANGED <<panel, deploys, server, clicks, pollOutcome,
                   outdated, unshown>>
    /\ UNCHANGED <<urlVars, clientVars>>

\* The i-th poll in flight gets its response, of kind k, and pollData runs
\* to its end. The answer of the server and its handling are one step: a
\* list is the one the project has when the response is handled.
PollHandle(i, k) ==
    /\ i \in 1..Len(polls)
    /\ k \in ResponseKinds
    /\ polls' = RemoveAt(polls, i)
    /\ UNCHANGED <<selected, deploys, server, clicks>>
    /\ LET r == PollResult(panel, polls[i], k)
       IN /\ pollOutcome' = r.outcome
          /\ panel' = r.innerHTML
          /\ unshown' = (unshown /\ (r.outcome # "rendered" \/ i <= outdated))
    /\ outdated' = IF ~unshown' THEN 0
                   ELSE IF i <= outdated THEN outdated - 1 ELSE outdated
    /\ UNCHANGED <<urlVars, clientVars>>

\* A click on the deploy button: saveAndDeploy up to its first await.
DeployClick ==
    /\ clicks < MaxClicks
    /\ clicks' = clicks + 1
    /\ panel' = <<Creating>> \o panel
    /\ deploys' = Append(deploys, [project |-> selected, created |-> FALSE])
    /\ UNCHANGED <<selected, polls, server, pollOutcome, outdated, unshown>>
    /\ UNCHANGED <<urlVars, clientVars>>

\* The server route POST /deployment creates the deployment of the j-th
\* saveAndDeploy in flight. The observer, when it watches no deployment,
\* starts to watch this one or lets it pass.
ServerCreate(j) ==
    /\ j \in 1..Len(deploys)
    /\ ~deploys[j].created
    /\ deploys' = [deploys EXCEPT ![j].created = TRUE]
    /\ server' = [server EXCEPT ![deploys[j].project] = @ + 1]
    /\ \/ UNCHANGED <<unshown, outdated>>
       \/ /\ ~unshown
          /\ unshown' = TRUE
          /\ outdated' = Len(polls)
    /\ UNCHANGED <<selected, panel, polls, clicks, pollOutcome>>
    /\ UNCHANGED <<urlVars, clientVars>>

\* A mutant of DeployDone that takes the "Creating deployment..." message
\* off the panel when the request has completed.
DeployDoneClearing(j, ok) ==
    /\ j \in 1..Len(deploys)
    /\ deploys' = RemoveAt(deploys, j)
    /\ panel' = IF Len(panel) > 0 /\ panel[1] = Creating THEN Tail(panel) ELSE panel
    /\ UNCHANGED <<selected, polls, server, clicks, pollOutcome,
                   outdated, unshown>>
    /\ UNCHANGED <<urlVars, clientVars>>

\* The j-th saveAndDeploy in flight gets its response and runs to its end:
\* the result is read and dropped (ok), or the request or the reading of
\* its body fails and the call's promise is rejected, which nothing handles.
\* Neither touches the page.
DeployDone(j, ok) ==
    /\ j \in 1..Len(deploys)
    /\ deploys' = RemoveAt(deploys, j)
    /\ UNCHANGED <<selected, panel, polls, server, clicks, pollOutcome,
                   outdated, unshown>>
    /\ UNCHANGED <<urlVars, clientVars>>

Next ==
    \/ TimerTick
    \/ \E p \in Projects : ChangeProject(p)
    \/ \E i \in 1..MaxInFlight, k \in ResponseKinds : PollHandle(i, k)
    \/ DeployClick
    \/ \E j \in 1..MaxClicks : ServerCreate(j)
    \/ \E j \in 1..MaxClicks, ok \in BOOLEAN : DeployDone(j, ok)

\* The browser controller at rest, for the specifications that do not use it.
UiIdle ==
    /\ selected = "A"
    /\ panel = <<>>
    /\ polls = <<>>
    /\ deploys = <<>>
    /\ server = InitialServer
    /\ clicks = 0
    /\ pollOutcome = "none"
    /\ outdated = 0
    /\ unshown = FALSE

-----------------------------------------------------------------------------
(* The calls of urlJoin *)

S_http      == <<"h", "t", "t", "p", ":">>
S_httpSl    == <<"h", "t", "t", "p", ":", "/", "/">>
S_httpA     == <<"h", "t", "t", "p", ":", "/", "/", "a">>
S_file      == <<"f", "i", "l", "e", ":">>
S_fileSl    == <<"f", "i", "l", "e", ":", "/", "/", "/", "/">>
S_a         == <<"a">>
S_slBsl     == <<"/", "b", "/">>
S_bQuery    == <<"b", "?", "x", "=", "1">>
S_cQuery    == <<"c", "?", "y", "=", "2">>
S_query     == <<"?", "k">>
S_hash      == <<"#", "h">>
S_empty     == <<>>

Segments ==
    { Str(s) : s \in { S_http, S_httpSl, S_httpA, S_file, S_fileSl, S_a,
                       S_slBsl, S_bQuery, S_cQuery, S_query, S_hash, S_empty } }
    \cup { Num(<<"5">>) }

SegmentLists == UNION { [1..n -> Segments] : n \in 0..MaxSegs }

UrlInit ==
    /\ args \in SegmentLists
    /\ given = args
    /\ asArray \in BOOLEAN
    /\ calls = <<>>
    /\ ClientIdle
    /\ UiIdle

\* The caller calls urlJoin on the segments it holds.
UrlJoinCall ==
    /\ Len(calls) < MaxCalls
    /\ LET r == urlJoin(args, asArray)
       IN /\ calls' = Append(calls, [thrown |-> r.thrown, str |-> r.str])
          /\ args' = r.after
    /\ UNCHANGED <<asArray, given, clientVars, uiVars>>

UrlNext == UrlJoinCall

-----------------------------------------------------------------------------
(* The uses of the client *)

ClientInit ==
    /\ env \in [DEPLOY_ACCESS_TOKEN : EnvValues, DEPLOY_ORG_ID : EnvOrgValues]
    /\ ctorArgs = NoArgs
    /\ client = NoClient
    /\ requests = <<>>
    /\ UrlIdle
    /\ UiIdle

\* new Client(accessToken, orgId, options)
Construct(accessToken, orgId, options) ==
    /\ client.state = "none"
    /\ client' = Constructor(accessToken, orgId, options)
    /\ ctorArgs' = [accessToken |-> accessToken, orgId |-> orgId]
    /\ UNCHANGED <<env, requests, urlVars, uiVars>>

\* client.fetch(url, options)
Fetch(url, options) ==
    /\ client.state = "ok"
    /\ Len(requests) < MaxRequests
    /\ requests' = Append(requests,
           [op |-> "fetch", arg |-> url, request |-> FetchRequest(url, options)])
    /\ UNCHANGED <<env, ctorArgs, client, urlVars, uiVars>>

\* client.fetchUrl(url, options)
FetchUrl(url, options) ==
    /\ client.state = "ok"
    /\ Len(requests) < MaxRequests
    /\ requests' = Append(requests,
           [op |-> "fetchUrl", arg |-> url, request |-> FetchUrlRequest(url, options)])
    /\ UNCHANGED <<env, ctorArgs, client, urlVars, uiVars>>

ClientNext ==
    \/ \E at \in TokenValues, org \in OrgValues, o \in ClientOptions : Construct(at, org, o)
    \/ \E u \in Paths, o \in RequestOptions : Fetch(u, o)
    \/ \E u \in FullUrls, o \in RequestOptions : FetchUrl(u, o)

vars == <<args, asArray, calls, given, env, ctorArgs, client, requests,
          selected, panel, polls, deploys, server, clicks, pollOutcome,
          outdated, unshown>>

Spec == Init /\ [][Next]_vars

\* The timer keeps firing, responses that have arrived are handled, and polls
\* are again and again answered and rendered.
Fairness ==
    /\ WF_vars(TimerTick)
    /\ SF_vars(\E i \in 1..MaxInFlight : PollHandle(i, "list") \/ PollHandle(i, "null"))

FairSpec == Spec /\ Fairness

SpecUrl == UrlInit /\ [][UrlNext]_vars

SpecClient == ClientInit /\ [][ClientNext]_vars

-----------------------------------------------------------------------------
(* Claims about the browser controller *)

\* The responses the claims count as a failed poll: the request is rejected,
\* the body is no JSON, the JSON is no list, or the list cannot be rendered.
FailedKinds == {"rejected", "badjson", "object", "badlist"}

\* C3: when a poll fails, pollData logs the error, returns without throwing
\* and leaves the panel exactly as it was, whatever the panel held.
C3_FailedPollKeepsPanel ==
    [][\A i \in 1..MaxInFlight, k \in FailedKinds :
          PollHandle(i, k) => (panel' = panel /\ pollOutcome' = "logged")]_vars

\* C3 witness: a poll has just failed on a panel that holds a "Creating
\* deployment..." message in front of a rendered list.
C3_Witness ==
    /\ pollOutcome = "logged"
    /\ Len(panel) >= 2
    /\ panel[1] = Creating
    /\ panel[2].tag = "div.deployment-line"

\* What the claims say the panel holds after a response body was handled:
\* the placeholder for an empty or absent list, else one line per deployment
\* in response order.
PanelShows(p, body) ==
    IF Len(body.items) = 0
    THEN p = <<Placeholder>>
    ELSE /\ Len(p) = Len(body.items)
         /\ \A j \in 1..Len(p) : p[j] = DeploymentLine(body.items[j])

\* C4: every successfully handled poll response replaces the panel by a
\* function of that response alone: the placeholder for an empty or absent
\* list, else one line per deployment in response order, and nothing else.
C4_PollReplacesPanel ==
    [][\A i \in 1..MaxInFlight, k \in {"null", "list"} :
          PollHandle(i, k) =>
              (PanelShows(panel', ResponseBody(polls[i], k)) /\ pollOutcome' = "rendered")]_vars

\* C4 witness: after a deploy click put its message into the panel, a poll
\* has rendered the two deployments of project A, latest first.
C4_Witness ==
    /\ pollOutcome = "rendered"
    /\ clicks >= 1
    /\ panel = <<DeploymentLine(Deployment("A", 2)), DeploymentLine(Deployment("A", 1))>>

HasCreating == \E j \in 1..Len(panel) : panel[j] = Creating

\* The panel has just been rendered from a poll, with no message left, and
\* no watched deployment waits for a poll issued after its creation.
ShownAfterCreation ==
    /\ ~unshown
    /\ pollOutcome = "rendered"
    /\ ~HasCreating

\* C5: a deploy click prepends one "Creating deployment..." message, the
\* completion of its request leaves the panel unchanged whether it succeeds
\* or fails, and with the timer firing and polls succeeding again and again
\* the message is eventually replaced and every created deployment is
\* eventually followed by the rendering of a poll issued after its creation.
C5_DeployShownByLaterPoll ==
    /\ [][DeployClick => panel' = <<Creating>> \o panel]_vars
    /\ [][\A j \in 1..MaxClicks, ok \in BOOLEAN :
             DeployDone(j, ok) => panel' = panel]_vars
    /\ HasCreating ~> ~HasCreating
    /\ unshown ~> ShownAfterCreation

\* C5 witness: the deployment of a click was created, its request has
\* completed, and the panel then was rendered from a poll issued after the
\* creation.
C5_Witness ==
    /\ clicks >= 1
    /\ deploys = <<>>
    /\ server # InitialServer
    /\ ShownAfterCreation

\* C10: in-flight polls are never cancelled and keep the project id read
\* when they were issued: only the handling of its response removes a poll,
\* a project change adds a poll for the new project behind the ones in
\* flight, and a handled list is the one of the poll's own project.
C10_PollsKeepTheirProject ==
    [][/\ \/ \E i \in 1..MaxInFlight, k \in ResponseKinds : PollHandle(i, k)
          \/ /\ Len(polls') >= Len(polls)
             /\ \A i \in 1..Len(polls) : polls'[i] = polls[i]
       /\ \A p \in Projects :
             ChangeProject(p) =>
                 /\ Len(polls') = Len(polls) + 1
                 /\ polls'[Len(polls')] = p
       /\ \A i \in 1..MaxInFlight :
             PollHandle(i, "list") =>
                 PanelShows(panel', JsonList(DeploymentList(polls[i], server[polls[i]])))
      ]_vars

\* C10 witness: project B is selected, no poll is in flight (so the poll
\* issued when B was selected has been handled), and the poll handled last
\* rendered the deployments of project A into the panel.
C10_Witness ==
    /\ selected = "B"
    /\ polls = <<>>
    /\ pollOutcome = "rendered"
    /\ Len(panel) >= 1
    /\ \A j \in 1..Len(panel) : panel[j].label.project = "A"

-----------------------------------------------------------------------------
(* Claims about the client *)

\* C1 (as claimed): every request issued by fetchUrl(fullUrl) goes to fullUrl
\* itself, not to the endpoint joined with it, while every request issued by
\* fetch(path) goes to urlJoin(endpoint, path).
C1_FetchUrlBypassesJoin ==
    \A i \in 1..Len(requests) :
        /\ requests[i].op = "fetchUrl" => requests[i].request.url = requests[i].arg
        /\ requests[i].op = "fetch" =>
              requests[i].request.url =
                  urlJoin(<<Str(client.endpoint), Str(requests[i].arg)>>, FALSE).str

\* Whether a source provides a non-empty string.
Provides(v) == v # Undefined /\ v # ""

\* C2 (as claimed): construction fails exactly when, for the token or for the
\* org id, neither the argument nor the environment variable provides a
\* non-empty string; when it succeeds the stored values are the provided
\* ones, the argument winning over the environment.
C2_ConstructionResolves ==
    client.state # "none" =>
        LET tokOk == Provides(ctorArgs.accessToken) \/ Provides(env.DEPLOY_ACCESS_TOKEN)
            orgOk == Provides(ctorArgs.orgId) \/ Provides(env.DEPLOY_ORG_ID)
        IN /\ client.state = "ok" <=> (tokOk /\ orgOk)
           /\ client.state = "ok" =>
                /\ client.accessToken = IF Provides(ctorArgs.accessToken)
                                        THEN ctorArgs.accessToken
                                        ELSE env.DEPLOY_ACCESS_TOKEN
                /\ client.orgId = IF Provides(ctorArgs.orgId)
                                  THEN ctorArgs.orgId ELSE env.DEPLOY_ORG_ID

-----------------------------------------------------------------------------
(* Claims about urlJoin *)

AllStrings(segs) == \A i \in 1..Len(segs) : segs[i].isString

\* The number of occurrences of the character c in s.
RECURSIVE Count(_, _)
Count(s, c) ==
    IF Len(s) = 0 THEN 0
    ELSE (IF Head(s) = c THEN 1 ELSE 0) + Count(Tail(s), c)

\* The texts of the segments one after the other.
RECURSIVE Concat(_)
Concat(segs) == IF Len(segs) = 0 THEN <<>> ELSE Head(segs).s \o Concat(Tail(segs))

\* s without its slashes.
RECURSIVE NoSlash(_)
NoSlash(s) ==
    IF Len(s) = 0 THEN <<>>
    ELSE (IF Head(s) = "/" THEN <<>> ELSE <<Head(s)>>) \o NoSlash(Tail(s))

\* s with every "?" written as "&".
AmpForQuery(s) == [i \in 1..Len(s) |-> IF s[i] = "?" THEN "&" ELSE s[i]]

\* The segments that carry a query string.
QuerySegments(segs) == { i \in 1..Len(segs) : Count(segs[i].s, "?") > 0 }

\* The part of a segment before its first "?", and the part after it.
PathPart(seg) == Str(Split(seg.s, "?")[1])
QueryPart(seg) == Join(Tail(Split(seg.s, "?")), <<"?">>)

RECURSIVE QueryParts(_)
QueryParts(segs) ==
    IF Len(segs) = 0 THEN <<>>
    ELSE (IF Count(Head(segs).s, "?") > 0 THEN <<QueryPart(Head(segs))>> ELSE <<>>)
         \o QueryParts(Tail(segs))

Example6 == <<Str(S_httpA), Str(S_bQuery), Str(S_cQuery)>>
Example6Claimed ==
    <<"h", "t", "t", "p", ":", "/", "/", "a", "/", "b", "/", "c",
      "?", "x", "=", "1", "&", "y", "=", "2">>
Example6Returned ==
    <<"h", "t", "t", "p", ":", "/", "/", "a", "/", "b", "?", "x", "=", "1",
      "/", "c", "&", "y", "=", "2">>

\* C6 (as claimed): when more than one segment carries a query string, the
\* result is the path parts of all segments joined by single slashes, then
\* one "?", then all query parts joined by "&"; the example returns
\* "http://a/b/c?x=1&y=2".
C6_PathsThenQueries ==
    (Len(calls) >= 1 /\ AllStrings(given) /\ Cardinality(QuerySegments(given)) > 1) =>
        /\ ~calls[1].thrown
        /\ calls[1].str =
              normalize([i \in 1..Len(given) |-> PathPart(given[i])]).str
              \o <<"?">> \o Join(QueryParts(given), <<"&">>)
        /\ given = Example6 => calls[1].str = Example6Claimed

\* C6 (amended): when more than one segment carries a query string, the
\* result holds exactly one "?", standing where the first "?" of the input
\* stood, and every later "?" has become "&" in place: apart from slashes the
\* characters of the segments keep their order, so a later segment's path
\* part stays behind the earlier query; the example returns
\* "http://a/b?x=1/c&y=2".
C6_QueryMergedInPlace ==
    (Len(calls) >= 1 /\ AllStrings(given) /\ Cardinality(QuerySegments(given)) > 1) =>
        /\ ~calls[1].thrown
        /\ Count(calls[1].str, "?") = 1
        /\ NoSlash(Split(calls[1].str, "?")[1]) = NoSlash(Split(Concat(given), "?")[1])
        /\ NoSlash(AmpForQuery(calls[1].str)) = NoSlash(AmpForQuery(Concat(given)))
        /\ given = Example6 => calls[1].str = Example6Returned

\* C6 witness: the example has been joined and gave "http://a/b?x=1/c&y=2".
C6_Witness ==
    /\ given = Example6
    /\ Len(calls) >= 1
    /\ calls[1] = [thrown |-> FALSE, str |-> Example6Returned]

\* C7 (as claimed): urlJoin throws the TypeError whenever a segment, at any
\* position, is not a string.
C7_NonStringThrows ==
    (Len(calls) >= 1 /\ ~AllStrings(given)) => calls[1].thrown

\* The separator the claim gives a scheme.
Separator(scheme) ==
    IF scheme = <<"f", "i", "l", "e">> THEN <<":", "/", "/", "/">> ELSE <<":", "/", "/">>

\* The segments hold a single scheme prefix, in the first segment, and some
\* path text after it.
SingleScheme(segs) ==
    /\ Len(segs) >= 1
    /\ AllStrings(segs)
    /\ SchemeLen(segs[1].s) >= 1
    /\ Count(Concat(segs), ":") = 1
    /\ LET all == Concat(segs)
           n == SchemeLen(all)
       IN RunIn(all, n + 2, {"/"}) < Len(all) - (n + 1)

\* C8 (as claimed): with a single scheme prefix the result starts with the
\* scheme and exactly one separator, ":///" for file and "://" otherwise.
C8_OneSeparator ==
    (Len(calls) >= 1 /\ SingleScheme(given)) =>
        LET n == SchemeLen(given[1].s)
            scheme == SubSeq(given[1].s, 1, n)
            head == scheme \o Separator(scheme)
        IN /\ ~calls[1].thrown
           /\ StartsWith(calls[1].str, head)
           /\ Len(calls[1].str) > Len(head)
           /\ calls[1].str[Len(head) + 1] # "/"

\* C9 (as claimed): a call leaves the caller's sequence as it was, and a
\* second call on the same sequence gives the same result.
C9_InputUnchanged ==
    /\ args = given
    /\ Len(calls) = 2 => calls[1] = calls[2]

====
